---- MODULE Spec2Model ----
(***************************************************************************)
(* solwatch: the per-address subscription engine (tracker.Subscriber), its *)
(* Stop() callers, the goroutines it spawns per connection, the message    *)
(* classifier isNotif and the transport it talks to.                       *)
(*                                                                         *)
(* One Subscriber is modelled.  The transport (dial, write, read, pong     *)
(* delivery) is the environment: it may fail a dial at most MaxDialFaults  *)
(* times and break or mute a connection at most MaxConnFaults times.       *)
(* Time is counted in keepalive intervals (20 s): the 60 s read deadline   *)
(* is DeadlineTicks intervals without a refresh.                           *)
(***************************************************************************)
EXTENDS Naturals, Integers, Sequences, FiniteSets, TLC

\* ------------------------------------------------------------------ bounds

\* dials the transport may fail
MaxDialFaults == 3

\* connections the transport may break (write error, read error) or mute (the
\* remote stops answering pings)
MaxConnFaults == 1

\* inbound data messages the remote sends over the life of the Subscriber
MaxMsgs == 2

\* Next() calls made on one Backoff without a Reset() in between
MaxAttempts == 4

\* goroutines that call Track and Untrack concurrently
NumCallers == 2

\* Subscribers the Manager creates over its life
MaxSubs == 3

\* goroutines that call Stop() concurrently
NumStoppers == 2

\* Stop() calls made over the life of the Subscriber
MaxStopCalls == 2

\* ------------------------------------------------------- program constants

\* read deadline (60 s) counted in keepalive intervals (20 s)
DeadlineTicks == 3

\* time.Second, in nanoseconds (the unit of time.Duration)
Second == 1000000000

\* a successful dial happens once, and once more after each broken connection
MaxConns == MaxConnFaults + 1

Stoppers == 1..NumStoppers
Conns == 1..MaxConns
Callers == 1..NumCallers

\* the addresses callers name: two that can be subscribed to and one that
\* cannot be used as a subscribe parameter
GoodAddrs == {"addrA", "addrB"}
BadAddrs == {"bad"}
Addrs == GoodAddrs \cup BadAddrs

\* --------------------------------------------------------- JSON messages

\* a JSON value below the top level: its type, its characters when it is a
\* string, its keys when it is an object
JVal(t, s, keys) == [t |-> t, s |-> s, keys |-> keys]

JNull == JVal("null", <<>>, {})
JNum == JVal("num", <<>>, {})
JArr == JVal("arr", <<>>, {})
JStr(s) == JVal("str", s, {})
JObj(keys) == JVal("obj", <<>>, keys)

\* method names seen on the wire, as character sequences
StrAccountNotification == <<"a","c","c","o","u","n","t","N","o","t","i","f","i","c","a","t","i","o","n">>
StrAccountUpper == <<"A","C","C","O","U","N","T","_","P","U","S","H">>
StrVendorAccount == <<"h","e","l","i","u","s","A","c","c","o","u","n","t">>
StrSlotNotification == <<"s","l","o","t","N","o","t","i","f","i","c","a","t","i","o","n">>
StrEmpty == <<>>
StrAccount == <<"a","c","c","o","u","n","t">>

MethodStrings == {StrAccountNotification, StrAccountUpper, StrVendorAccount, StrSlotNotification, StrEmpty}

\* strings.ToLower, on the letters that occur
LowerOf(c) ==
    CASE c = "A" -> "a" [] c = "C" -> "c" [] c = "O" -> "o" [] c = "U" -> "u"
      [] c = "N" -> "n" [] c = "T" -> "t" [] c = "P" -> "p" [] c = "S" -> "s"
      [] c = "H" -> "h" [] OTHER -> c

ToLower(s) == [i \in 1..Len(s) |-> LowerOf(s[i])]

\* strings.Contains
Contains(s, sub) ==
    \E i \in 1..(Len(s) + 1) :
        /\ i + Len(sub) - 1 <= Len(s)
        /\ SubSeq(s, i, i + Len(sub) - 1) = sub

TopKeys == {"result", "method", "params"}

ValuesOf(k) ==
    CASE k = "result" -> {JNum, JNull}
      [] k = "method" -> {JStr(s) : s \in MethodStrings} \cup {JNum}
      [] k = "params" -> {JNull, JNum, JArr, JObj({}), JObj({"result"}), JObj({"subscription"})}

AllValues == ValuesOf("result") \cup ValuesOf("method") \cup ValuesOf("params")

\* a raw inbound frame: whether it is JSON at all, the type of its top-level
\* value and, for an object, its fields
RawMsg(valid, t, f) == [valid |-> valid, t |-> t, f |-> f]

NoFields == [k \in {} |-> JNull]

ObjectMsgs ==
    { RawMsg(TRUE, "obj", f) :
        f \in UNION { { g \in [K -> AllValues] : \A k \in K : g[k] \in ValuesOf(k) } : K \in SUBSET TopKeys } }

OtherMsgs ==
    { RawMsg(FALSE, "none", NoFields), RawMsg(TRUE, "arr", NoFields), RawMsg(TRUE, "num", NoFields),
      RawMsg(TRUE, "str", NoFields), RawMsg(TRUE, "null", NoFields) }

AllMsgs == ObjectMsgs \cup OtherMsgs

\* json.Unmarshal(raw, &m) with m a map[string]any
Unmarshal(raw) ==
    IF ~raw.valid THEN [err |-> TRUE, m |-> NoFields]
    ELSE IF raw.t = "obj" THEN [err |-> FALSE, m |-> raw.f]
    ELSE IF raw.t = "null" THEN [err |-> FALSE, m |-> NoFields]
    ELSE [err |-> TRUE, m |-> NoFields]

HasKey(m, k) == k \in DOMAIN m

\* isNotif taking every JSON object for an update
isNotif_AnyObject(raw) == ~Unmarshal(raw).err

\* isNotif without the check of a top-level "result"
isNotif_NoResultRule(raw) ==
    LET u == Unmarshal(raw)
        m == u.m
    IN  IF u.err THEN FALSE
        ELSE IF /\ HasKey(m, "method")
                /\ m["method"].t = "str"
                /\ Contains(ToLower(m["method"].s), StrAccount)
                /\ HasKey(m, "params")
             THEN TRUE
        ELSE IF /\ HasKey(m, "params")
                /\ m["params"].t = "obj"
                /\ "result" \in m["params"].keys
             THEN TRUE
        ELSE FALSE

\* isNotif comparing the method name without strings.ToLower
isNotif_CaseSensitive(raw) ==
    LET u == Unmarshal(raw)
        m == u.m
    IN  IF u.err THEN FALSE
        ELSE IF HasKey(m, "result") THEN FALSE
        ELSE IF /\ HasKey(m, "method")
                /\ m["method"].t = "str"
                /\ Contains(m["method"].s, StrAccount)
                /\ HasKey(m, "params")
             THEN TRUE
        ELSE IF /\ HasKey(m, "params")
                /\ m["params"].t = "obj"
                /\ "result" \in m["params"].keys
             THEN TRUE
        ELSE FALSE

\* isNotif whose fallback takes any "params" object, nested "result" or not
isNotif_AnyParamsObject(raw) ==
    LET u == Unmarshal(raw)
        m == u.m
    IN  IF u.err THEN FALSE
        ELSE IF HasKey(m, "result") THEN FALSE
        ELSE IF /\ HasKey(m, "method")
                /\ m["method"].t = "str"
                /\ Contains(ToLower(m["method"].s), StrAccount)
                /\ HasKey(m, "params")
             THEN TRUE
        ELSE IF /\ HasKey(m, "params")
                /\ m["params"].t = "obj"
             THEN TRUE
        ELSE FALSE

\* lines 412-435: the classifier of inbound frames
isNotif(raw) ==
    LET u == Unmarshal(raw)
        m == u.m
    IN  IF u.err THEN FALSE
        ELSE IF HasKey(m, "result") THEN FALSE
        ELSE IF /\ HasKey(m, "method")
                /\ m["method"].t = "str"
                /\ Contains(ToLower(m["method"].s), StrAccount)
                /\ HasKey(m, "params")
             THEN TRUE
        ELSE IF /\ HasKey(m, "params")
                /\ m["params"].t = "obj"
                /\ "result" \in m["params"].keys
             THEN TRUE
        ELSE FALSE

\* the frames the remote sends in the Subscriber model
AckMsg == RawMsg(TRUE, "obj", [k \in {"result"} |-> JNum])
PushMsg == RawMsg(TRUE, "obj", [k \in {"method", "params"} |-> IF k = "method" THEN JStr(StrAccountNotification) ELSE JObj({"result"})])
EmptyMsg == RawMsg(TRUE, "obj", NoFields)

Wire == {AckMsg, PushMsg, EmptyMsg}

\* ---------------------------------------------------------- util.Backoff

\* Durations are whole nanoseconds.  The float64 arithmetic of Next() is done
\* here in exact arithmetic: factor and jitter are given in tenths, the draw
\* of rand.Float64() in hundredths, and a product a * k / q is taken as a
\* whole without forming a * k (which would not fit the integers used here).

\* floor(a * k / q)
MulDivFloor(a, k, q) == (a \div q) * k + ((a % q) * k) \div q

\* ceiling(a * k / q)
MulDivCeil(a, k, q) == (a \div q) * k + ((a % q) * k + q - 1) \div q

\* NewBackoff: the parameters as stored after normalisation
NewBackoff(min, max, factor, jitter) ==
    LET m == IF min <= 0 THEN Second ELSE min
        M == IF max < m THEN m ELSE max
        f == IF factor < 11 THEN 20 ELSE factor
        j == IF jitter < 0 THEN 0 ELSE IF jitter > 10 THEN 10 ELSE jitter
    IN  [min |-> m, max |-> M, factor |-> f, jitter |-> j]

\* float64(b.min) * pow(b.factor, float64(b.attempt)), cut at b.max: pow
\* multiplies exp times by base; once the product has reached max it stays
\* there (the factor is at least 1.1), so the multiplication stops
RECURSIVE pow(_, _, _, _)
pow(x, base, exp, cap) ==
    IF x >= cap THEN cap
    ELSE IF exp = 0 THEN x
    ELSE pow(x * (base \div 10), base, exp - 1, cap)

\* the exponential step of Next(), before jitter
RawStep(b, attempt) == pow(b.min, b.factor, attempt, b.max)

\* Next(): the duration returned when b.attempt is attempt and rand.Float64()
\* draws r hundredths: the jitter (r*2 - 1) * b.jitter, the floor at b.min, and
\* the conversion time.Duration(backoff) that drops the fraction
BackoffNext(b, attempt, r) ==
    LET raw == RawStep(b, attempt)
        k == 1000 + (2 * r - 100) * b.jitter
        jittered == IF b.jitter > 0 THEN MulDivFloor(raw, k, 1000) ELSE raw
    IN  IF jittered < b.min THEN b.min ELSE jittered

\* the arguments NewBackoff is called with (factor and jitter in tenths)
BackoffArgs ==
    [min : {0, 3, 5}, max : {2, 12, 40}, factor : {5, 10, 20, 30}, jitter : {-5, 0, 2, 10, 15}]

\* the draws of rand.Float64(), in hundredths of [0, 1)
RandDraws == {0, 30, 50, 99}

\* ------------------------------------------ telegram command dispatch

\* A message text is a sequence of characters in which a wallet address is
\* one element ("A1" stands for a whole base58 key of 32 bytes).

AddrAtoms == {"A1", "A2"}

SlashTrack == <<"/", "t", "r", "a", "c", "k">>
SlashTrackSp == SlashTrack \o <<" ">>
SlashTracked == SlashTrack \o <<"e", "d">>
SlashTrackmany == SlashTrack \o <<"m", "a", "n", "y">>
SlashTrackmanySp == SlashTrackmany \o <<" ">>
SlashUntrack == <<"/", "u", "n", "t", "r", "a", "c", "k">>
SlashUntrackSp == SlashUntrack \o <<" ">>
SlashUntrackmany == SlashUntrack \o <<"m", "a", "n", "y">>
SlashUntrackmanySp == SlashUntrackmany \o <<" ">>
SlashHelp == <<"/", "h", "e", "l", "p">>
SlashHealth == <<"/", "h", "e", "a", "l", "t", "h">>
SlashKill == <<"/", "k", "i", "l", "l">>

\* strings.HasPrefix
HasPrefix(s, p) == Len(s) >= Len(p) /\ SubSeq(s, 1, Len(p)) = p

\* s[n:]
From(s, n) == SubSeq(s, n + 1, Len(s))

\* strings.TrimPrefix
TrimPrefix(s, p) == IF HasPrefix(s, p) THEN From(s, Len(p)) ELSE s

\* strings.TrimSpace
RECURSIVE TrimLeft(_)
TrimLeft(s) == IF s # <<>> /\ Head(s) = " " THEN TrimLeft(Tail(s)) ELSE s

RECURSIVE TrimRight(_)
TrimRight(s) == IF s # <<>> /\ s[Len(s)] = " " THEN TrimRight(SubSeq(s, 1, Len(s) - 1)) ELSE s

TrimSpace(s) == TrimRight(TrimLeft(s))

\* strings.IndexRune(s, '@'), counted from 1 here; 0 when absent
IndexAt(s) ==
    IF \E i \in 1..Len(s) : s[i] = "@"
       THEN CHOOSE i \in 1..Len(s) : s[i] = "@" /\ \A j \in 1..(i - 1) : s[j] # "@"
       ELSE 0

\* strings.Fields: the maximal runs without a space
RECURSIVE Fields(_)
Fields(s) ==
    LET t == TrimLeft(s)
        n == IF \E i \in 1..Len(t) : t[i] = " "
                THEN (CHOOSE i \in 1..Len(t) : t[i] = " " /\ \A j \in 1..(i - 1) : t[j] # " ") - 1
                ELSE Len(t)
    IN  IF t = <<>> THEN <<>> ELSE <<SubSeq(t, 1, n)>> \o Fields(From(t, n))

\* validateSolanaAddress: non-empty, no whitespace, base58 of 32 bytes
ValidAddress(arg) == Len(arg) = 1 /\ arg[1] \in AddrAtoms

\* one entry of what a handler did: a call on a collaborator with its
\* argument and whether it returned nil, or a reply sent to the chat
Did(fn, arg, ok) == [fn |-> fn, arg |-> arg, ok |-> ok]
Reply(kind) == Did("sendHTML", <<kind>>, TRUE)

\* AddWallet (bolt.go 59-84): an error for an invalid address, and for a valid
\* one when the context is done or the database update fails (env.failAdd)
AddWalletOk(env, arg) == ValidAddress(arg) /\ arg[1] \notin env.failAdd

\* RemoveWallet (bolt.go 87-106)
RemoveWalletOk(env, arg) == ValidAddress(arg)

\* Manager.Track as the handler sees it: it returns an error or nil
TrackOk(env, arg) == ValidAddress(arg) /\ arg[1] \notin env.failTrack

\* the /track branch of both handlers, once arg is known
TrackBranch(env, arg) ==
    IF arg = <<>> THEN <<Reply("usage")>>
    ELSE IF ~AddWalletOk(env, arg) THEN <<Did("AddWallet", arg, FALSE), Reply("track failed")>>
    ELSE IF ~TrackOk(env, arg)
         THEN <<Did("AddWallet", arg, TRUE), Did("Track", arg, FALSE), Reply("subscriber failed")>>
    ELSE <<Did("AddWallet", arg, TRUE), Did("Track", arg, TRUE), Reply("tracking")>>

\* the /untrack branch of both handlers
UntrackBranch(env, arg) ==
    IF arg = <<>> THEN <<Reply("usage")>>
    ELSE IF ~RemoveWalletOk(env, arg)
         THEN <<Did("Untrack", arg, TRUE), Did("RemoveWallet", arg, FALSE), Reply("untrack failed")>>
    ELSE <<Did("Untrack", arg, TRUE), Did("RemoveWallet", arg, TRUE), Reply("untracked")>>

\* the /tracked, /health and /kill branches
TrackedBranch == <<Did("List", <<>>, TRUE), Reply("list")>>
HealthBranch == <<Did("Snapshot", <<>>, TRUE), Reply("health")>>
KillBranch == <<Reply("shutting down"), Did("killFn", <<>>, TRUE)>>

\* handleCommand of src/internal/telegram/handler.go, lines 79-153
handleCommandV1(text, env) ==
    LET raw == TrimSpace(text)
        lower == ToLower(raw)
    IN  IF HasPrefix(lower, SlashHelp) THEN <<Reply("help")>>
        ELSE IF HasPrefix(lower, SlashTrack)
             THEN TrackBranch(env, TrimSpace(TrimPrefix(raw, SlashTrack)))
        ELSE IF HasPrefix(lower, SlashUntrack)
             THEN UntrackBranch(env, TrimSpace(TrimPrefix(raw, SlashUntrack)))
        ELSE IF HasPrefix(lower, SlashTracked) THEN TrackedBranch
        ELSE IF HasPrefix(lower, SlashHealth) THEN HealthBranch
        ELSE IF HasPrefix(lower, SlashKill) THEN KillBranch
        ELSE <<Reply("unknown command")>>

\* part_002 lines 292-304: the loop of /trackmany
RECURSIVE TrackmanyLoop(_, _)
TrackmanyLoop(env, args) ==
    IF args = <<>> THEN <<>>
    ELSE LET addr == Head(args)
             one == IF ~AddWalletOk(env, addr) THEN <<Did("AddWallet", addr, FALSE)>>
                    ELSE IF ~TrackOk(env, addr)
                         THEN <<Did("AddWallet", addr, TRUE), Did("Track", addr, FALSE),
                                Did("RemoveWallet", addr, RemoveWalletOk(env, addr))>>
                    ELSE <<Did("AddWallet", addr, TRUE), Did("Track", addr, TRUE)>>
         IN  one \o TrackmanyLoop(env, Tail(args))

\* part_002 lines 315-322: the loop of /untrackmany
RECURSIVE UntrackmanyLoop(_, _)
UntrackmanyLoop(env, args) ==
    IF args = <<>> THEN <<>>
    ELSE <<Did("Untrack", Head(args), TRUE),
           Did("RemoveWallet", Head(args), RemoveWalletOk(env, Head(args)))>>
         \o UntrackmanyLoop(env, Tail(args))

\* handleCommand of src/unnamed/part_002, lines 242-368
handleCommandV2(text, env) ==
    LET raw0 == TrimSpace(text)
        lower0 == ToLower(raw0)
        idx == IndexAt(lower0)
        raw == IF idx # 0 THEN SubSeq(raw0, 1, idx - 1) ELSE raw0
        lower == IF idx # 0 THEN SubSeq(lower0, 1, idx - 1) ELSE lower0
    IN  IF lower = SlashHelp THEN <<Reply("help")>>
        ELSE IF HasPrefix(lower, SlashTrackSp)
             THEN TrackBranch(env, TrimSpace(From(raw, Len(SlashTrack))))
        ELSE IF HasPrefix(lower, SlashUntrackSp)
             THEN UntrackBranch(env, TrimSpace(From(raw, Len(SlashUntrack))))
        ELSE IF HasPrefix(lower, SlashTrackmanySp)
             THEN IF Fields(From(raw, Len(SlashTrackmany))) = <<>> THEN <<Reply("usage")>>
                  ELSE TrackmanyLoop(env, Fields(From(raw, Len(SlashTrackmany))))
                       \o <<Reply("trackmany done")>>
        ELSE IF HasPrefix(lower, SlashUntrackmanySp)
             THEN IF Fields(From(raw, Len(SlashUntrackmany))) = <<>> THEN <<Reply("usage")>>
                  ELSE UntrackmanyLoop(env, Fields(From(raw, Len(SlashUntrackmany))))
                       \o <<Reply("untrackmany done")>>
        ELSE IF lower = SlashTracked THEN TrackedBranch
        ELSE IF lower = SlashHealth THEN HealthBranch
        ELSE IF lower = SlashKill THEN KillBranch
        ELSE <<Reply("unknown command")>>

\* the message texts sent to the bot
CommandTexts ==
    { SlashTracked,
      <<" ">> \o SlashTracked \o <<" ">>,
      <<"/", "T">> \o Tail(Tail(SlashTracked)),
      SlashTracked \o <<"@", "b", "o", "t">>,
      SlashTrack,
      SlashTrackSp \o <<"A1">>,
      SlashTrackSp \o <<" ", "A2", " ">>,
      SlashTrackSp \o <<"e", "d">>,
      SlashTrackmanySp \o <<"A1", " ", "A2">>,
      SlashTrackmanySp \o <<"A2", " ", " ", "x", " ", "A1">>,
      SlashUntrackSp \o <<"A1">>,
      SlashUntrackmanySp \o <<"A1", " ", "A2">>,
      SlashHelp,
      SlashHealth,
      SlashKill,
      <<"h", "i">> }

\* which writes of the store and which Track calls fail
DispatchEnvs == [failAdd : SUBSET AddrAtoms, failTrack : SUBSET AddrAtoms]

\* ------------------------------------------------------------------ state

VARIABLES
    pc,         \* position of the Run goroutine
    ctxDone,    \* the context passed to Run is cancelled
    stopClosed, \* s.stopCh is closed
    shouldOpen, \* s.shouldOpen
    open,       \* s.open
    attempt,    \* bo.attempt of the Backoff Run owns
    onceDone,   \* s.stopOnce has run its function
    onceHolder, \* the Stop() caller inside s.stopOnce (0: none)
    spc,        \* position of each Stop() caller
    stopReturns, \* Stop() calls that have returned
    panicked,   \* close of a closed channel
    stopCloses, \* number of close(s.stopCh) executed
    nconn,      \* connections opened so far
    cur,        \* the connection of the current iteration (0: none)
    closes,     \* conn.Close() calls per connection
    watcher,    \* per connection: the goroutine of lines 298-303
    pinger,     \* per connection: the goroutine of lines 341-356
    pingStop,   \* per connection: pingStop is closed
    idleTicks,  \* intervals since the read deadline was last set
    pongOwed,   \* a ping is on the wire and its pong has not come
    mute,       \* the remote no longer answers the pings of this connection
    dialFaults, \* dials the transport has failed so far
    connFaults, \* connections the transport has broken or muted so far
    received,   \* the messages ReadMessage has returned, in order
    sinkLog,    \* ActivityNotify calls: the index in received of the message
    regMu,      \* the Manager's mutex: the caller that holds it (0: free)
    registry,   \* the Manager's map: address -> index in subs (0: no entry)
    subs,       \* the Subscribers the Manager has created, in order
    caller,     \* per caller: the Track/Untrack call it is in and its last return
    cin,        \* input of the function exercised alone (isNotif, NewBackoff)
    cout        \* its verdict (isNotif) or the last call and its return (Backoff)

vars == <<pc, ctxDone, stopClosed, shouldOpen, open, attempt, onceDone, onceHolder, spc,
          stopReturns, panicked, stopCloses, nconn, cur, closes, watcher, pinger, pingStop,
          idleTicks, pongOwed, mute, dialFaults, connFaults, received, sinkLog,
          regMu, registry, subs, caller, cin, cout>>

stopVars == <<stopClosed, shouldOpen, onceDone, onceHolder, spc, stopReturns, panicked, stopCloses>>
connVars == <<nconn, cur, closes, watcher, pinger, pingStop>>
probeVars == <<idleTicks, pongOwed, mute>>
faults == <<dialFaults, connFaults>>
msgVars == <<received, sinkLog>>
classVars == <<cin, cout>>
regVars == <<regMu, registry, subs, caller>>

WaitPcs == {"waitDial", "waitSub", "waitRead"}

\* Run holds a connection it has dialled and not yet torn down
ConnectedPcs == {"subscribe", "read", "notify"}

\* some Stop() call has returned
StopReturned == stopReturns > 0

\* main wires tracker.ActivityNotify (telegram.New) before any Subscriber runs
ActivityNotifyWired == TRUE

SubscriberInit ==
    /\ pc = "top"
    /\ ctxDone = FALSE
    /\ stopClosed = FALSE
    /\ shouldOpen = TRUE
    /\ open = FALSE
    /\ attempt = 0
    /\ onceDone = FALSE
    /\ onceHolder = 0
    /\ spc = [s \in Stoppers |-> "idle"]
    /\ stopReturns = 0
    /\ panicked = FALSE
    /\ stopCloses = 0
    /\ nconn = 0
    /\ cur = 0
    /\ closes = [c \in Conns |-> 0]
    /\ watcher = [c \in Conns |-> "none"]
    /\ pinger = [c \in Conns |-> "none"]
    /\ pingStop = [c \in Conns |-> FALSE]
    /\ idleTicks = 0
    /\ pongOwed = FALSE
    /\ mute = FALSE
    /\ dialFaults = 0
    /\ connFaults = 0
    /\ received = <<>>
    /\ sinkLog = <<>>
    /\ regMu = 0
    /\ registry = [a \in Addrs |-> 0]
    /\ subs = <<>>
    /\ caller = [c \in Callers |-> [op |-> "idle", addr |-> "bad", ret |-> "none"]]

Init ==
    /\ SubscriberInit
    /\ cin = EmptyMsg
    /\ cout = "idle"

\* ----------------------------------------------------------------- Stop()

\* Stop() without the sync.Once: every call stores and closes
StopCall_NoOnce(s) ==
    /\ ~panicked
    /\ spc[s] = "idle"
    /\ stopReturns + Cardinality({x \in Stoppers : spc[x] # "idle"}) < MaxStopCalls
    /\ spc' = [spc EXCEPT ![s] = "store"]
    /\ onceHolder' = s
    /\ UNCHANGED <<pc, ctxDone, stopClosed, shouldOpen, open, attempt, onceDone, stopReturns,
                   panicked, stopCloses, connVars, probeVars, faults, msgVars, classVars, regVars>>

\* s.stopOnce.Do: return at once when the function has run; otherwise take
\* the Once's mutex (a caller that finds it held waits here) and run it
StopCall(s) ==
    /\ ~panicked
    /\ spc[s] = "idle"
    /\ stopReturns + Cardinality({x \in Stoppers : spc[x] # "idle"}) < MaxStopCalls
    /\ onceDone \/ onceHolder = 0
    /\ IF onceDone
          THEN /\ stopReturns' = stopReturns + 1
               /\ UNCHANGED <<spc, onceHolder>>
          ELSE /\ spc' = [spc EXCEPT ![s] = "store"]
               /\ onceHolder' = s
               /\ UNCHANGED stopReturns
    /\ UNCHANGED <<pc, ctxDone, stopClosed, shouldOpen, open, attempt, onceDone,
                   panicked, stopCloses, connVars, probeVars, faults, msgVars, classVars, regVars>>

\* a Stop() that also stores false into s.open
StopStore_ClearsOpen(s) ==
    /\ ~panicked
    /\ spc[s] = "store"
    /\ shouldOpen' = FALSE
    /\ open' = FALSE
    /\ spc' = [spc EXCEPT ![s] = "close"]
    /\ UNCHANGED <<pc, ctxDone, stopClosed, attempt, onceDone, onceHolder, stopReturns,
                   panicked, stopCloses, connVars, probeVars, faults, msgVars, classVars, regVars>>

\* s.shouldOpen.Store(false)
StopStore(s) ==
    /\ ~panicked
    /\ spc[s] = "store"
    /\ shouldOpen' = FALSE
    /\ spc' = [spc EXCEPT ![s] = "close"]
    /\ UNCHANGED <<pc, ctxDone, stopClosed, open, attempt, onceDone, onceHolder, stopReturns,
                   panicked, stopCloses, connVars, probeVars, faults, msgVars, classVars, regVars>>

\* close(s.stopCh); the Once marks itself done and unlocks; Stop() returns
StopClose(s) ==
    /\ ~panicked
    /\ spc[s] = "close"
    /\ panicked' = stopClosed
    /\ stopClosed' = TRUE
    /\ stopCloses' = stopCloses + 1
    /\ onceDone' = TRUE
    /\ onceHolder' = IF onceHolder = s THEN 0 ELSE onceHolder
    /\ spc' = [spc EXCEPT ![s] = "idle"]
    /\ stopReturns' = stopReturns + 1
    /\ UNCHANGED <<pc, ctxDone, shouldOpen, open, attempt, connVars, probeVars, faults,
                   msgVars, classVars, regVars>>

\* the context passed to Run is cancelled (signal or /kill)
Cancel ==
    /\ ~panicked
    /\ ~ctxDone
    /\ ctxDone' = TRUE
    /\ UNCHANGED <<pc, stopVars, open, attempt, connVars, probeVars, faults, msgVars, classVars, regVars>>

\* ------------------------------------------------------- Subscriber.Run

\* the top-of-loop check without the case <-s.stopCh
RunTop_IgnoresStop ==
    /\ ~panicked
    /\ pc = "top"
    /\ pc' = IF ctxDone THEN "done" ELSE "dial"
    /\ UNCHANGED <<ctxDone, stopVars, open, attempt, connVars, probeVars, faults, msgVars, classVars, regVars>>

\* lines 265-271: the non-blocking check of ctx.Done() and s.stopCh
RunTop ==
    /\ ~panicked
    /\ pc = "top"
    /\ pc' = IF ctxDone \/ stopClosed THEN "done" ELSE "dial"
    /\ UNCHANGED <<ctxDone, stopVars, open, attempt, connVars, probeVars, faults, msgVars, classVars, regVars>>

\* line 279: dialer.DialContext(ctx, ...) is called; a context that is already
\* cancelled makes it fail at once (lines 280-282: bo.Next())
DialBegin ==
    /\ ~panicked
    /\ pc = "dial"
    /\ IF ctxDone
          THEN /\ pc' = "waitDial"
               /\ attempt' = attempt + 1
          ELSE /\ pc' = "dialing"
               /\ UNCHANGED attempt
    /\ UNCHANGED <<ctxDone, stopVars, open, connVars, probeVars, faults, msgVars, classVars, regVars>>

\* the successful dial without bo.Reset()
DialOk_NoReset ==
    /\ ~panicked
    /\ pc = "dialing"
    /\ nconn < MaxConns
    /\ nconn' = nconn + 1
    /\ cur' = nconn + 1
    /\ open' = TRUE
    /\ watcher' = [watcher EXCEPT ![nconn + 1] = "wait"]
    /\ idleTicks' = 0
    /\ pongOwed' = FALSE
    /\ mute' = FALSE
    /\ pc' = "subscribe"
    /\ UNCHANGED <<ctxDone, stopVars, attempt, closes, pinger, pingStop, faults, msgVars, classVars, regVars>>

\* lines 279, 293-309: the handshake succeeds; s.open.Store(true), bo.Reset(),
\* the stop-watcher goroutine is spawned and the read deadline is set
DialOk ==
    /\ ~panicked
    /\ pc = "dialing"
    /\ nconn < MaxConns
    /\ nconn' = nconn + 1
    /\ cur' = nconn + 1
    /\ open' = TRUE
    /\ attempt' = 0
    /\ watcher' = [watcher EXCEPT ![nconn + 1] = "wait"]
    /\ idleTicks' = 0
    /\ pongOwed' = FALSE
    /\ mute' = FALSE
    /\ pc' = "subscribe"
    /\ UNCHANGED <<ctxDone, stopVars, closes, pinger, pingStop, faults, msgVars, classVars, regVars>>

\* lines 279-282: the dial fails (refused, handshake timeout); bo.Next()
DialFail ==
    /\ ~panicked
    /\ pc = "dialing"
    /\ dialFaults < MaxDialFaults
    /\ dialFaults' = dialFaults + 1
    /\ attempt' = attempt + 1
    /\ pc' = "waitDial"
    /\ UNCHANGED <<ctxDone, stopVars, open, connVars, probeVars, connFaults, msgVars, classVars, regVars>>

\* lines 279-282: the dial is cut short by the cancelled context; bo.Next()
DialAbort ==
    /\ ~panicked
    /\ pc = "dialing"
    /\ ctxDone
    /\ attempt' = attempt + 1
    /\ pc' = "waitDial"
    /\ UNCHANGED <<ctxDone, stopVars, open, connVars, probeVars, faults, msgVars, classVars, regVars>>

\* lines 283-290, 329-336, 386-393: the select takes ctx.Done() or s.stopCh
WaitReturn ==
    /\ ~panicked
    /\ pc \in WaitPcs
    /\ ctxDone \/ stopClosed
    /\ pc' = "done"
    /\ UNCHANGED <<ctxDone, stopVars, open, attempt, connVars, probeVars, faults, msgVars, classVars, regVars>>

\* the timer branch returning instead of continuing
WaitExpire_Return ==
    /\ ~panicked
    /\ pc \in WaitPcs
    /\ pc' = "done"
    /\ UNCHANGED <<ctxDone, stopVars, open, attempt, connVars, probeVars, faults, msgVars, classVars, regVars>>

\* lines 288-289, 334-335, 391-392: the select takes time.After(wait); continue
WaitExpire ==
    /\ ~panicked
    /\ pc \in WaitPcs
    /\ pc' = "top"
    /\ UNCHANGED <<ctxDone, stopVars, open, attempt, connVars, probeVars, faults, msgVars, classVars, regVars>>

\* lines 324, 339-356: conn.WriteJSON(subMsg) succeeds; the pinger is spawned
SubscribeOk ==
    /\ ~panicked
    /\ pc = "subscribe"
    /\ closes[cur] = 0
    /\ pinger' = [pinger EXCEPT ![cur] = "run"]
    /\ pc' = "read"
    /\ UNCHANGED <<ctxDone, stopVars, open, attempt, nconn, cur, closes, watcher, pingStop,
                   probeVars, faults, msgVars, classVars, regVars>>

\* the teardown of a failed subscribe without s.open.Store(false)
SubscribeTeardown_KeepsOpen ==
    /\ closes' = [closes EXCEPT ![cur] = @ + 1]
    /\ attempt' = attempt + 1
    /\ cur' = 0
    /\ idleTicks' = 0
    /\ pongOwed' = FALSE
    /\ mute' = FALSE
    /\ pc' = "waitSub"
    /\ UNCHANGED <<ctxDone, stopVars, open, nconn, watcher, pinger, pingStop, dialFaults, msgVars, classVars, regVars>>

\* lines 324-328: the write failed; s.open.Store(false), conn.Close(), bo.Next()
SubscribeTeardown ==
    /\ open' = FALSE
    /\ closes' = [closes EXCEPT ![cur] = @ + 1]
    /\ attempt' = attempt + 1
    /\ cur' = 0
    /\ idleTicks' = 0
    /\ pongOwed' = FALSE
    /\ mute' = FALSE
    /\ pc' = "waitSub"
    /\ UNCHANGED <<ctxDone, stopVars, nconn, watcher, pinger, pingStop, dialFaults, msgVars, classVars, regVars>>

\* line 324: the transport fails the write
SubscribeFail ==
    /\ ~panicked
    /\ pc = "subscribe"
    /\ connFaults < MaxConnFaults
    /\ connFaults' = connFaults + 1
    /\ SubscribeTeardown

\* line 324: the write fails because the stop-watcher has closed the connection
SubscribeFailClosed ==
    /\ ~panicked
    /\ pc = "subscribe"
    /\ closes[cur] > 0
    /\ UNCHANGED connFaults
    /\ SubscribeTeardown

\* a read loop that treats a frame isNotif rejects as a read error
ReadMsg_DiscardIsError(m) ==
    /\ ~panicked
    /\ pc = "read"
    /\ closes[cur] = 0
    /\ idleTicks < DeadlineTicks
    /\ Len(received) < MaxMsgs
    /\ received' = Append(received, m)
    /\ IF isNotif(m) /\ ActivityNotifyWired
          THEN /\ sinkLog' = Append(sinkLog, Len(received) + 1)
               /\ pc' = "notify"
               /\ UNCHANGED <<open, attempt, connVars, probeVars>>
          ELSE /\ UNCHANGED sinkLog
               /\ pingStop' = [pingStop EXCEPT ![cur] = TRUE]
               /\ open' = FALSE
               /\ closes' = [closes EXCEPT ![cur] = @ + 1]
               /\ attempt' = attempt + 1
               /\ cur' = 0
               /\ idleTicks' = 0
               /\ pongOwed' = FALSE
               /\ mute' = FALSE
               /\ pc' = "waitRead"
               /\ UNCHANGED <<nconn, watcher, pinger>>
    /\ UNCHANGED <<ctxDone, stopVars, faults, classVars, regVars>>

\* lines 362-374: ReadMessage returns a data message; when isNotif says so,
\* ActivityNotify is called (and Run is inside the call until it returns)
ReadMsg(m) ==
    /\ ~panicked
    /\ pc = "read"
    /\ closes[cur] = 0
    /\ idleTicks < DeadlineTicks
    /\ Len(received) < MaxMsgs
    /\ received' = Append(received, m)
    /\ IF isNotif(m) /\ ActivityNotifyWired
          THEN /\ sinkLog' = Append(sinkLog, Len(received) + 1)
               /\ pc' = "notify"
          ELSE /\ UNCHANGED sinkLog
               /\ pc' = "read"
    /\ UNCHANGED <<ctxDone, stopVars, open, attempt, connVars, probeVars, faults, classVars, regVars>>

\* a read loop that ends, as on a read error, when the delivery is over
NotifyReturn_FailureTearsDown ==
    /\ ~panicked
    /\ pc = "notify"
    /\ pingStop' = [pingStop EXCEPT ![cur] = TRUE]
    /\ open' = FALSE
    /\ closes' = [closes EXCEPT ![cur] = @ + 1]
    /\ attempt' = attempt + 1
    /\ cur' = 0
    /\ idleTicks' = 0
    /\ pongOwed' = FALSE
    /\ mute' = FALSE
    /\ pc' = "waitRead"
    /\ UNCHANGED <<ctxDone, stopVars, nconn, watcher, pinger, faults, msgVars, classVars, regVars>>

\* line 372: ActivityNotify returns (sendHTML, bounded by its 5 s context)
NotifyReturn ==
    /\ ~panicked
    /\ pc = "notify"
    /\ pc' = "read"
    /\ UNCHANGED <<ctxDone, stopVars, open, attempt, connVars, probeVars, faults, msgVars, classVars, regVars>>

\* the teardown without conn.Close()
ReadTeardown_NoClose ==
    /\ pingStop' = [pingStop EXCEPT ![cur] = TRUE]
    /\ open' = FALSE
    /\ attempt' = attempt + 1
    /\ cur' = 0
    /\ idleTicks' = 0
    /\ pongOwed' = FALSE
    /\ mute' = FALSE
    /\ pc' = "waitRead"
    /\ UNCHANGED <<ctxDone, stopVars, nconn, closes, watcher, pinger, dialFaults, msgVars, classVars, regVars>>

\* the teardown without s.open.Store(false)
ReadTeardown_KeepsOpen ==
    /\ pingStop' = [pingStop EXCEPT ![cur] = TRUE]
    /\ closes' = [closes EXCEPT ![cur] = @ + 1]
    /\ attempt' = attempt + 1
    /\ cur' = 0
    /\ idleTicks' = 0
    /\ pongOwed' = FALSE
    /\ mute' = FALSE
    /\ pc' = "waitRead"
    /\ UNCHANGED <<ctxDone, stopVars, open, nconn, watcher, pinger, dialFaults, msgVars, classVars, regVars>>

\* the teardown followed by a return on the read error
ReadTeardown_Return ==
    /\ pingStop' = [pingStop EXCEPT ![cur] = TRUE]
    /\ open' = FALSE
    /\ closes' = [closes EXCEPT ![cur] = @ + 1]
    /\ attempt' = attempt + 1
    /\ cur' = 0
    /\ idleTicks' = 0
    /\ pongOwed' = FALSE
    /\ mute' = FALSE
    /\ pc' = "done"
    /\ UNCHANGED <<ctxDone, stopVars, nconn, watcher, pinger, dialFaults, msgVars, classVars, regVars>>

\* lines 363-364, 379-385: ReadMessage failed; close(pingStop),
\* s.open.Store(false), conn.Close(); readErr is never nil, so bo.Next()
ReadTeardown ==
    /\ pingStop' = [pingStop EXCEPT ![cur] = TRUE]
    /\ open' = FALSE
    /\ closes' = [closes EXCEPT ![cur] = @ + 1]
    /\ attempt' = attempt + 1
    /\ cur' = 0
    /\ idleTicks' = 0
    /\ pongOwed' = FALSE
    /\ mute' = FALSE
    /\ pc' = "waitRead"
    /\ UNCHANGED <<ctxDone, stopVars, nconn, watcher, pinger, dialFaults, msgVars, classVars, regVars>>

\* line 362: the transport fails the read (reset, remote close)
ReadFail ==
    /\ ~panicked
    /\ pc = "read"
    /\ connFaults < MaxConnFaults
    /\ connFaults' = connFaults + 1
    /\ ReadTeardown

\* line 362: the read fails because the stop-watcher has closed the connection
ReadFailClosed ==
    /\ ~panicked
    /\ pc = "read"
    /\ closes[cur] > 0
    /\ UNCHANGED connFaults
    /\ ReadTeardown

\* line 362: the read deadline set at lines 306-308 has passed
ReadTimeout ==
    /\ ~panicked
    /\ pc = "read"
    /\ idleTicks = DeadlineTicks
    /\ UNCHANGED connFaults
    /\ ReadTeardown

\* ------------------------------------------ goroutines of one connection

\* lines 298-303: the stop-watcher wakes on s.stopCh, writes the close frame,
\* closes the connection and closes its `closed` channel
WatcherFire(c) ==
    /\ ~panicked
    /\ watcher[c] = "wait"
    /\ stopClosed
    /\ closes' = [closes EXCEPT ![c] = @ + 1]
    /\ watcher' = [watcher EXCEPT ![c] = "done"]
    /\ UNCHANGED <<pc, ctxDone, stopVars, open, attempt, nconn, cur, pinger, pingStop,
                   probeVars, faults, msgVars, classVars, regVars>>

\* the pinger's select without the ctx.Done() case
PingerExit_IgnoresCtx(c) ==
    /\ ~panicked
    /\ pinger[c] = "run"
    /\ pingStop[c] \/ stopClosed
    /\ pinger' = [pinger EXCEPT ![c] = "exited"]
    /\ UNCHANGED <<pc, ctxDone, stopVars, open, attempt, nconn, cur, closes, watcher, pingStop,
                   probeVars, faults, msgVars, classVars, regVars>>

\* lines 345-351: the pinger's select takes pingStop, s.stopCh or ctx.Done()
PingerExit(c) ==
    /\ ~panicked
    /\ pinger[c] = "run"
    /\ pingStop[c] \/ stopClosed \/ ctxDone
    /\ pinger' = [pinger EXCEPT ![c] = "exited"]
    /\ UNCHANGED <<pc, ctxDone, stopVars, open, attempt, nconn, cur, closes, watcher, pingStop,
                   probeVars, faults, msgVars, classVars, regVars>>

\* ------------------------------------------------------------ environment

\* one keepalive interval (20 s) passes on the live connection.  Lines 352-353:
\* a running pinger takes t.C and writes a ping (on a connection that is
\* already closed the write fails and the error is dropped).  While the remote
\* answers, the pong of one interval comes before the next interval.
Tick ==
    /\ ~panicked
    /\ cur # 0
    /\ idleTicks < DeadlineTicks
    /\ \/ pinger[cur] = "run" /\ (mute \/ ~pongOwed)
       \/ pinger[cur] = "exited"
    /\ idleTicks' = idleTicks + 1
    /\ pongOwed' = (pongOwed \/ (pinger[cur] = "run" /\ closes[cur] = 0))
    /\ UNCHANGED <<pc, ctxDone, stopVars, open, attempt, connVars, mute, faults,
                   msgVars, classVars, regVars>>

\* lines 307-309: ReadMessage meets the pong; the handler sets the deadline anew
PongArrive ==
    /\ ~panicked
    /\ pc = "read"
    /\ pongOwed
    /\ ~mute
    /\ closes[cur] = 0
    /\ idleTicks < DeadlineTicks
    /\ idleTicks' = 0
    /\ pongOwed' = FALSE
    /\ UNCHANGED <<pc, ctxDone, stopVars, open, attempt, connVars, mute, faults,
                   msgVars, classVars, regVars>>

\* the remote stops answering the pings of this connection (it may still send
\* data)
RemoteMute ==
    /\ ~panicked
    /\ pc \in {"read", "notify"}
    /\ ~mute
    /\ connFaults < MaxConnFaults
    /\ connFaults' = connFaults + 1
    /\ mute' = TRUE
    /\ UNCHANGED <<pc, ctxDone, stopVars, open, attempt, connVars, idleTicks, pongOwed,
                   dialFaults, msgVars, classVars, regVars>>

\* ---------------------------------------------------------- specification

RunStep ==
    \/ RunTop
    \/ DialBegin
    \/ WaitReturn
    \/ WaitExpire
    \/ SubscribeOk
    \/ SubscribeFailClosed
    \/ NotifyReturn
    \/ ReadFailClosed
    \/ ReadTimeout

DialOutcome == DialOk \/ DialFail \/ DialAbort

Next ==
    \/ \E s \in Stoppers : StopCall(s)
    \/ \E s \in Stoppers : StopStore(s)
    \/ \E s \in Stoppers : StopClose(s)
    \/ Cancel
    \/ RunTop
    \/ DialBegin
    \/ DialOk
    \/ DialFail
    \/ DialAbort
    \/ WaitReturn
    \/ WaitExpire
    \/ SubscribeOk
    \/ SubscribeFail
    \/ SubscribeFailClosed
    \/ \E m \in Wire : ReadMsg(m)
    \/ NotifyReturn
    \/ ReadFail
    \/ ReadFailClosed
    \/ ReadTimeout
    \/ \E c \in Conns : WatcherFire(c)
    \/ \E c \in Conns : PingerExit(c)
    \/ Tick
    \/ PongArrive
    \/ RemoteMute

Spec == Init /\ [][Next]_vars

\* what the scheduler and the timers guarantee: a runnable goroutine runs, a
\* dial ends (handshake timeout), a timer fires, a Stop() call runs through
Fairness ==
    /\ WF_vars(RunStep)
    /\ WF_vars(DialOutcome)
    /\ WF_vars(Tick)
    /\ \A c \in Conns : WF_vars(WatcherFire(c))
    /\ \A c \in Conns : WF_vars(PingerExit(c))
    /\ \A s \in Stoppers : WF_vars(StopStore(s) \/ StopClose(s))

LiveSpec == Init /\ [][Next]_vars /\ Fairness

\* ------------------------------- the read loop fed with malformed frames

\* the frames the remote sends here: not JSON, JSON that is no object, the
\* empty object, the acknowledgement and the push
InboundFrames == OtherMsgs \cup Wire

\* one Subscriber that nobody stops or cancels, on the same faulty transport
InboundNext ==
    \/ RunTop
    \/ DialBegin
    \/ DialOk
    \/ DialFail
    \/ WaitExpire
    \/ SubscribeOk
    \/ SubscribeFail
    \/ \E m \in InboundFrames : ReadMsg(m)
    \/ NotifyReturn
    \/ ReadFail
    \/ ReadTimeout
    \/ \E c \in Conns : PingerExit(c)
    \/ Tick
    \/ PongArrive
    \/ RemoteMute

InboundSpec == Init /\ [][InboundNext]_vars

\* ------------------------------------------------- the classifier alone

ClassifyInit ==
    /\ SubscriberInit
    /\ cin \in AllMsgs
    /\ cout = "pending"

Classify ==
    /\ cout = "pending"
    /\ cout' = IF isNotif(cin) THEN "activity" ELSE "discard"
    /\ UNCHANGED <<pc, ctxDone, stopVars, open, attempt, connVars, probeVars, faults,
                   msgVars, cin, regVars>>

ClassifyNext == Classify

ClassifySpec == ClassifyInit /\ [][ClassifyNext]_vars

\* ---------------------------------------------------- the Backoff alone

\* the Backoff as constructed from the arguments in cin
TheBackoff == NewBackoff(cin.min, cin.max, cin.factor, cin.jitter)

BackoffInit ==
    /\ SubscriberInit
    /\ cin \in BackoffArgs
    /\ cout = [op |-> "new", calls |-> 0, r |-> 0, d |-> 0, wasReset |-> FALSE]

\* b.Reset() that leaves the attempt counter as it is
ResetCall_KeepsAttempt ==
    /\ cout' = [op |-> "reset", calls |-> 0, r |-> 0, d |-> 0, wasReset |-> TRUE]
    /\ UNCHANGED <<pc, ctxDone, stopVars, open, attempt, connVars, probeVars, faults,
                   msgVars, cin, regVars>>

\* b.Reset(): lines 250-254
ResetCall ==
    /\ attempt' = 0
    /\ cout' = [op |-> "reset", calls |-> 0, r |-> 0, d |-> 0, wasReset |-> TRUE]
    /\ UNCHANGED <<pc, ctxDone, stopVars, open, connVars, probeVars, faults,
                   msgVars, cin, regVars>>

\* b.Next(), lines 225-247, with rand.Float64() drawing r; cout.calls counts
\* the Next() calls since construction or the last Reset(), cout.wasReset
\* tells whether Reset() was ever called
NextCall(r) ==
    /\ attempt < MaxAttempts
    /\ attempt' = attempt + 1
    /\ cout' = [op |-> "next", calls |-> cout.calls + 1, r |-> r,
                d |-> BackoffNext(TheBackoff, attempt, r), wasReset |-> cout.wasReset]
    /\ UNCHANGED <<pc, ctxDone, stopVars, open, connVars, probeVars, faults,
                   msgVars, cin, regVars>>

BackoffStep ==
    \/ \E r \in RandDraws : NextCall(r)
    \/ ResetCall

BackoffSpec == BackoffInit /\ [][BackoffStep]_vars

\* ------------------------------------------ the command handlers alone

DispatchInit ==
    /\ SubscriberInit
    /\ cin \in [ver : {"handler.go", "part_002"}, text : CommandTexts, env : DispatchEnvs]
    /\ cout = <<>>

\* one message from the admin chat is handled by the handler of version
\* cin.ver; cout is what it did, in order
Dispatch ==
    /\ cout = <<>>
    /\ cout' = IF cin.ver = "handler.go" THEN handleCommandV1(cin.text, cin.env)
                                         ELSE handleCommandV2(cin.text, cin.env)
    /\ UNCHANGED <<pc, ctxDone, stopVars, open, attempt, connVars, probeVars, faults,
                   msgVars, cin, regVars>>

DispatchNext == Dispatch

DispatchSpec == DispatchInit /\ [][DispatchNext]_vars

\* ------------------------------- the Subscriber with its observers called

\* arguments NewSubscriber is called with: (wss, commitment, addr)
SubscriberArgs ==
    { [wss |-> <<"w", "s", "s">>, commitment |-> <<"c">>, addr |-> <<"A1">>],
      [wss |-> <<" ", "w", "s", "s">>, commitment |-> <<>>, addr |-> <<"A2", " ">>] }

\* lines 237-241: the fields NewSubscriber sets from its arguments
NewSubscriber(a) ==
    [wss |-> TrimSpace(a.wss), commitment |-> TrimSpace(a.commitment), addr |-> TrimSpace(a.addr)]

\* cin holds the fields wss, commitment and addr of the Subscriber; cout the
\* last observer call and what it returned
ObserverInit ==
    /\ SubscriberInit
    /\ cin \in {NewSubscriber(a) : a \in SubscriberArgs}
    /\ cout = [op |-> "none", ret |-> FALSE]

\* everything of the Subscriber but the record of the observer calls
subscriberVars == <<pc, ctxDone, stopVars, open, attempt, connVars, probeVars, faults,
                    msgVars, cin, regVars>>

\* line 247: IsOpen() returns s.open.Load()
IsOpen ==
    /\ cout' = [op |-> "IsOpen", ret |-> open]
    /\ UNCHANGED subscriberVars

\* line 248: ShouldBeOpen() returns s.shouldOpen.Load()
ShouldBeOpen ==
    /\ cout' = [op |-> "ShouldBeOpen", ret |-> shouldOpen]
    /\ UNCHANGED subscriberVars

ObserverNext ==
    \/ Next
    \/ IsOpen
    \/ ShouldBeOpen

ObserverSpec == ObserverInit /\ [][ObserverNext]_vars

\* ------------------------------------------------- the registry (Manager)

\* tracker.Manager as the specification describes it: a map from address to
\* Subscriber behind one mutex.  A Subscriber is here what the Manager sees
\* of it: its address, whether Stop() was called on it, and whether its Run
\* task still runs.

\* a caller between calls; ret is how its last call ended: Track returns
\* success as "tracked" (Subscriber created) or "existed" (no-op) and an error
\* as "rejected"; Untrack returns success as "untracked" or "absent"
Idle(r) == [op |-> "idle", addr |-> "bad", ret |-> r]

\* a Subscriber that was created, not stopped, and whose task has not returned
Live(i) == i \in 1..Len(subs) /\ ~subs[i].stopped /\ subs[i].run = "running"

\* List(): the addresses that have an entry
List == {a \in Addrs : registry[a] # 0}

\* Track(addr) that does not take the mutex
TrackLock_NoMutex(c, a) ==
    /\ caller[c].op = "idle"
    /\ a \in GoodAddrs
    /\ caller' = [caller EXCEPT ![c] = [op |-> "trackCheck", addr |-> a, ret |-> "none"]]
    /\ UNCHANGED <<pc, ctxDone, stopVars, open, attempt, connVars, probeVars, faults,
                   msgVars, classVars, regMu, registry, subs>>

\* Track(addr) is called with a usable address and takes the mutex
TrackLock(c, a) ==
    /\ caller[c].op = "idle"
    /\ a \in GoodAddrs
    /\ regMu = 0
    /\ regMu' = c
    /\ caller' = [caller EXCEPT ![c] = [op |-> "trackCheck", addr |-> a, ret |-> "none"]]
    /\ UNCHANGED <<pc, ctxDone, stopVars, open, attempt, connVars, probeVars, faults,
                   msgVars, classVars, registry, subs>>

\* Track(addr) with an address that cannot be subscribed to: rejected
TrackReject(c, a) ==
    /\ caller[c].op = "idle"
    /\ a \in BadAddrs
    /\ caller[c].ret # "rejected"
    /\ caller' = [caller EXCEPT ![c] = Idle("rejected")]
    /\ UNCHANGED <<pc, ctxDone, stopVars, open, attempt, connVars, probeVars, faults,
                   msgVars, classVars, regMu, registry, subs>>

\* Track: an entry exists, so return success without creating anything;
\* otherwise go on to create the Subscriber
TrackCheck(c) ==
    /\ caller[c].op = "trackCheck"
    /\ IF registry[caller[c].addr] # 0
          THEN /\ caller' = [caller EXCEPT ![c] = Idle("existed")]
               /\ regMu' = IF regMu = c THEN 0 ELSE regMu
          ELSE /\ caller' = [caller EXCEPT ![c].op = "trackInsert"]
               /\ UNCHANGED regMu
    /\ UNCHANGED <<pc, ctxDone, stopVars, open, attempt, connVars, probeVars, faults,
                   msgVars, classVars, registry, subs>>

\* Track: construct the Subscriber, register it under the address, launch its
\* Run task, release the mutex, return success (without waiting to connect)
TrackInsert(c) ==
    /\ caller[c].op = "trackInsert"
    /\ Len(subs) < MaxSubs
    /\ subs' = Append(subs, [addr |-> caller[c].addr, stopped |-> FALSE, run |-> "running"])
    /\ registry' = [registry EXCEPT ![caller[c].addr] = Len(subs) + 1]
    /\ regMu' = IF regMu = c THEN 0 ELSE regMu
    /\ caller' = [caller EXCEPT ![c] = Idle("tracked")]
    /\ UNCHANGED <<pc, ctxDone, stopVars, open, attempt, connVars, probeVars, faults,
                   msgVars, classVars>>

\* Untrack(addr) is called and takes the mutex
UntrackLock(c, a) ==
    /\ caller[c].op = "idle"
    /\ a \in Addrs
    /\ regMu = 0
    /\ regMu' = c
    /\ caller' = [caller EXCEPT ![c] = [op |-> "untrack", addr |-> a, ret |-> "none"]]
    /\ UNCHANGED <<pc, ctxDone, stopVars, open, attempt, connVars, probeVars, faults,
                   msgVars, classVars, registry, subs>>

\* Untrack: no entry, succeed trivially; otherwise Stop() the Subscriber
\* (lines 251-256: it only signals), remove the entry, release, return
UntrackBody(c) ==
    /\ caller[c].op = "untrack"
    /\ IF registry[caller[c].addr] = 0
          THEN UNCHANGED <<registry, subs>>
          ELSE /\ subs' = [subs EXCEPT ![registry[caller[c].addr]].stopped = TRUE]
               /\ registry' = [registry EXCEPT ![caller[c].addr] = 0]
    /\ regMu' = 0
    /\ caller' = [caller EXCEPT ![c] =
                      Idle(IF registry[caller[c].addr] = 0 THEN "absent" ELSE "untracked")]
    /\ UNCHANGED <<pc, ctxDone, stopVars, open, attempt, connVars, probeVars, faults,
                   msgVars, classVars>>

\* a Run task that returns on cancellation only and never looks at s.stopCh
SubReturn_IgnoresStop(i) ==
    /\ i \in 1..Len(subs)
    /\ subs[i].run = "running"
    /\ ctxDone
    /\ subs' = [subs EXCEPT ![i].run = "done"]
    /\ UNCHANGED <<pc, ctxDone, stopVars, open, attempt, connVars, probeVars, faults,
                   msgVars, classVars, regMu, registry, caller>>

\* the Run task of a Subscriber returns: only after Stop() or cancellation
\* (lines 265-271, 283-290, 329-336, 386-393)
SubReturn(i) ==
    /\ i \in 1..Len(subs)
    /\ subs[i].run = "running"
    /\ subs[i].stopped \/ ctxDone
    /\ subs' = [subs EXCEPT ![i].run = "done"]
    /\ UNCHANGED <<pc, ctxDone, stopVars, open, attempt, connVars, probeVars, faults,
                   msgVars, classVars, regMu, registry, caller>>

RegistryNext ==
    \/ \E c \in Callers, a \in Addrs : TrackLock(c, a)
    \/ \E c \in Callers, a \in Addrs : TrackReject(c, a)
    \/ \E c \in Callers : TrackCheck(c)
    \/ \E c \in Callers : TrackInsert(c)
    \/ \E c \in Callers, a \in Addrs : UntrackLock(c, a)
    \/ \E c \in Callers : UntrackBody(c)
    \/ \E i \in 1..MaxSubs : SubReturn(i)
    \/ Cancel

RegistrySpec == Init /\ [][RegistryNext]_vars

\* a call that holds the mutex runs through; a Run task that may return does
\* (Subscriber.Run after Stop() or cancellation: see C2, C7)
RegistryFairness ==
    /\ \A c \in Callers : WF_vars(TrackCheck(c) \/ TrackInsert(c) \/ UntrackBody(c))
    /\ \A i \in 1..MaxSubs : WF_vars(SubReturn(i))

RegistryLiveSpec == Init /\ [][RegistryNext]_vars /\ RegistryFairness

\* ------------------------------------------------------------- claims

\* C1: Run returns only when the stop signal has been released (a Stop() call
\* closed s.stopCh) or the context is cancelled; no dial, subscribe-write or
\* read failure (deadline expiry included) makes it return.
C1_RunReturnsOnlyOnStopOrCancel == pc = "done" => (stopClosed \/ ctxDone)

\* C1 witness: every fault the transport may induce has happened, a
\* connection was lost and replaced, nobody stopped or cancelled, Run goes on
C1_Witness ==
    /\ dialFaults = MaxDialFaults
    /\ connFaults = MaxConnFaults
    /\ nconn = 2
    /\ closes[1] = 1
    /\ pc = "read"
    /\ ~stopClosed
    /\ shouldOpen
    /\ ~ctxDone

\* C2 (as claimed): after a Stop() call has returned, Run eventually has
\* returned with the open flag false, and once the open flag is false after
\* that Stop() it is never set true again.
C2_StopThenClosedForGood ==
    /\ StopReturned ~> (pc = "done" /\ ~open)
    /\ [][(StopReturned /\ ~open) => ~open']_vars

\* C3: however many Stop() calls are made, one after another or at once, and
\* however they interleave with cancellation: s.stopCh is closed exactly once
\* (never twice, and it is closed when a call has returned), shouldOpen is
\* false from the first store on and never true again, and no call panics.
C3_StopOnce ==
    /\ ~panicked
    /\ stopCloses <= 1
    /\ stopClosed <=> (stopCloses = 1)
    /\ StopReturned => (stopClosed /\ onceDone)
    /\ (stopClosed \/ \E s \in Stoppers : spc[s] = "close") <=> ~shouldOpen

\* C3 witness: every Stop() call the bound allows has returned, the context is
\* cancelled as well, and the channel was closed once
C3_Witness ==
    /\ stopReturns = MaxStopCalls
    /\ ctxDone
    /\ stopCloses = 1
    /\ ~shouldOpen

\* C4 (as claimed): once a Stop() call has returned, Run starts no dial.
C4_NoDialAfterStop == [][StopReturned => ~(pc = "dial" /\ pc' # "dial")]_vars

\* C5 (as claimed): the open flag is true only while shouldOpen is true.
C5_OpenImpliesShouldOpen == open => shouldOpen

\* C5 (amended): the open flag is true only while Run holds a connection it
\* has dialled and not yet torn down; it is true with shouldOpen false only
\* there, after a Stop() call has stored false (and so never once Run has
\* returned, waits in backoff or is about to dial).
C5_OpenOnlyWhileConnected ==
    /\ open => (pc \in ConnectedPcs /\ cur # 0)
    /\ (open /\ ~shouldOpen) => (stopClosed \/ \E s \in Stoppers : spc[s] = "close")

\* C5 witness: connected and reading, with Stop() already returned
C5_Witness ==
    /\ open
    /\ ~shouldOpen
    /\ StopReturned
    /\ pc = "read"

\* C6: when nobody stops or cancels, then after the transport's faults (it has
\* only finitely many) the Subscriber is connected and in its read loop with
\* the open flag true, again and again.
C6_EventuallyResubscribed ==
    [](~ctxDone /\ shouldOpen) => []<>(pc = "read" /\ open)

\* C6 witness: all faults spent, the replacement connection is subscribed
C6_Witness ==
    /\ dialFaults = MaxDialFaults
    /\ connFaults = MaxConnFaults
    /\ nconn = MaxConns
    /\ pc = "read"
    /\ open
    /\ closes[nconn] = 0
    /\ ~ctxDone
    /\ shouldOpen

\* C7: after the context is cancelled Run eventually returns, from wherever it
\* is and without any Stop(); and cancellation closes no connection under a
\* blocked read: the stop-watcher moves only when s.stopCh is closed, and Run
\* leaves the read loop only through a failed read.
C7_CancelEndsRun ==
    /\ ctxDone ~> (pc = "done")
    /\ [][(\E c \in Conns : watcher[c] # watcher'[c]) => (stopClosed \/ pc = "dialing")]_vars
    /\ [][(pc \in {"read", "notify"} /\ pc' \notin {"read", "notify"}) => pc' = "waitRead"]_vars

\* C7 witness: cancelled while reading, never stopped, no transport fault: the
\* read deadline ran out and Run returned
C7_Witness ==
    /\ pc = "done"
    /\ ctxDone
    /\ ~stopClosed
    /\ shouldOpen
    /\ connFaults = 0
    /\ nconn = 1
    /\ closes[1] = 1
    /\ pingStop[1]

\* the frames of Wire that are activity: the account push
WireActivity == {PushMsg}

\* C8: ActivityNotify has been called once for each activity message read, in
\* the order read, and for no other message (acknowledgement, empty object).
C8_SinkOncePerActivity ==
    sinkLog = SelectSeq([i \in 1..Len(received) |-> i], LAMBDA i : received[i] \in WireActivity)

\* C8 witness: three failed dials, one good dial, then the acknowledgement and
\* one push; one call of the sink, and the Backoff counter back at zero
C8_Witness ==
    /\ dialFaults = 3
    /\ nconn = 1
    /\ connFaults = 0
    /\ received = <<AckMsg, PushMsg>>
    /\ sinkLog = <<2>>
    /\ attempt = 0
    /\ pc = "read"

\* method names that name an account push
AccountMethods == {StrAccountNotification, StrAccountUpper, StrVendorAccount}

IsObject(raw) == raw.valid /\ raw.t = "obj"

\* C9: a message with a top-level "result" and no "method" is never activity,
\* whatever its "params".
C9_AckIsNotActivity ==
    (/\ cout # "pending"
     /\ IsObject(cin)
     /\ HasKey(cin.f, "result")
     /\ ~HasKey(cin.f, "method")) => cout = "discard"

\* C9 witness: an acknowledgement whose params carry a nested result
C9_Witness ==
    /\ cout = "discard"
    /\ cin = RawMsg(TRUE, "obj", [k \in {"result", "params"} |-> IF k = "result" THEN JNum ELSE JObj({"result"})])

\* C10 (as claimed): a message whose "method" names an account push and which
\* has "params" is activity, whatever else it carries.
C10_AccountPushIsActivity ==
    (/\ cout # "pending"
     /\ IsObject(cin)
     /\ HasKey(cin.f, "method")
     /\ HasKey(cin.f, "params")
     /\ cin.f["method"] \in {JStr(s) : s \in AccountMethods}) => cout = "activity"

\* C10 (amended): such a message is activity provided it carries no top-level
\* "result"; with one it is discarded, method or not.
C10_AccountPushWithoutResult ==
    (/\ cout # "pending"
     /\ IsObject(cin)
     /\ HasKey(cin.f, "method")
     /\ HasKey(cin.f, "params")
     /\ cin.f["method"] \in {JStr(s) : s \in AccountMethods}) =>
        (cout = "activity" <=> ~HasKey(cin.f, "result"))

\* C10 witness: an upper-case account method with scalar params, no result
C10_Witness ==
    /\ cout = "activity"
    /\ cin = RawMsg(TRUE, "obj", [k \in {"method", "params"} |-> IF k = "method" THEN JStr(StrAccountUpper) ELSE JNum])

\* a message the ack rule of the code rejects: any top-level "result"
HasTopResult(raw) == IsObject(raw) /\ HasKey(raw.f, "result")

\* the ack rule as the claims word it: a top-level "result" and no "method"
IsAckShape(raw) == HasTopResult(raw) /\ ~HasKey(raw.f, "method")

\* the account-method rule: a "method" naming an account push, and "params"
IsAccountPush(raw) ==
    /\ IsObject(raw)
    /\ HasKey(raw.f, "method")
    /\ HasKey(raw.f, "params")
    /\ raw.f["method"] \in {JStr(s) : s \in AccountMethods}

\* "params" is a JSON object that has a "result" key
HasNestedResult(raw) ==
    /\ IsObject(raw)
    /\ HasKey(raw.f, "params")
    /\ raw.f["params"].t = "obj"
    /\ "result" \in raw.f["params"].keys

\* C11 (as claimed): a message matched neither by the acknowledgement rule
\* (top-level "result" without "method") nor by the account-method rule is
\* activity exactly when its "params" is an object with a "result" key.
C11_FallbackExactly ==
    (/\ cout # "pending"
     /\ ~IsAckShape(cin)
     /\ ~IsAccountPush(cin)) => (cout = "activity" <=> HasNestedResult(cin))

\* C11 (amended): a message with no top-level "result" at all that the
\* account-method rule does not match is activity exactly when its "params" is
\* an object with a "result" key; a message with a top-level "result" is
\* discarded even when it has a "method" and such "params".
C11_FallbackWithoutTopResult ==
    /\ (/\ cout # "pending"
        /\ ~HasTopResult(cin)
        /\ ~IsAccountPush(cin)) => (cout = "activity" <=> HasNestedResult(cin))
    /\ (cout # "pending" /\ HasTopResult(cin)) => cout = "discard"

\* C11 witness: the vendor push without a method, with a nested result
C11_Witness ==
    /\ cout = "activity"
    /\ cin = RawMsg(TRUE, "obj", [k \in {"params"} |-> JObj({"result"})])

\* a frame that is not JSON, is JSON but no object, or is the empty object
Malformed(raw) == ~raw.valid \/ raw.t # "obj" \/ raw = EmptyMsg

\* C12: a step in which ReadMessage returns a malformed frame (not JSON, not
\* an object, or {}) is taken in the read loop and leaves Run in the read
\* loop on the same connection, calls no sink, closes nothing, and leaves the
\* open flag and the Backoff counter as they were.
C12_MalformedIsDiscarded ==
    [][(/\ Len(received') = Len(received) + 1
        /\ Malformed(received'[Len(received')]))
          => (/\ pc = "read"
              /\ pc' = "read"
              /\ cur # 0
              /\ cur' = cur
              /\ open
              /\ open'
              /\ attempt' = attempt
              /\ sinkLog' = sinkLog
              /\ closes' = closes
              /\ pingStop' = pingStop
              /\ faults' = faults)]_vars

\* C12 witness: a frame that is not JSON and then {} have been read on the
\* first connection, which is still the one Run reads from
C12_Witness ==
    /\ received = <<RawMsg(FALSE, "none", NoFields), EmptyMsg>>
    /\ pc = "read"
    /\ open
    /\ nconn = 1
    /\ cur = 1
    /\ closes[1] = 0
    /\ attempt = 0
    /\ sinkLog = <<>>

\* the exponential step of the call cout records: raw = min(m * f^n, M) with
\* n the number of Next() calls before it since construction or Reset()
RawOfCall == RawStep(TheBackoff, cout.calls - 1)

\* C13 (as claimed): the n-th Next() since construction or the last Reset()
\* returns d with max(m, raw*(1-j)) <= d <= raw*(1+j), raw = min(m*f^n, M);
\* the first Next() after a Reset() returns a value in [m, m*(1+j)].
C13_NextWithinJitterBand ==
    cout.op = "next" =>
        /\ TheBackoff.min <= cout.d
        /\ MulDivCeil(RawOfCall, 10 - TheBackoff.jitter, 10) <= cout.d
        /\ cout.d <= MulDivFloor(RawOfCall, 10 + TheBackoff.jitter, 10)
        /\ cout.calls = 1 => cout.d <= MulDivFloor(TheBackoff.min, 10 + TheBackoff.jitter, 10)

\* C13 (amended): the same band, with the lower end reached only up to the
\* fraction of a nanosecond that the conversion to a duration drops:
\* max(m, floor(raw*(1-j))) <= d <= raw*(1+j); the first Next() after a
\* Reset() returns a value in [m, m*(1+j)].
C13_NextWithinTruncatedBand ==
    cout.op = "next" =>
        /\ TheBackoff.min <= cout.d
        /\ MulDivFloor(RawOfCall, 10 - TheBackoff.jitter, 10) <= cout.d
        /\ cout.d <= MulDivFloor(RawOfCall, 10 + TheBackoff.jitter, 10)
        /\ cout.calls = 1 => cout.d <= MulDivFloor(TheBackoff.min, 10 + TheBackoff.jitter, 10)

\* C13 witness: the first Next() after a Reset(), on a Backoff built with the
\* defaults for min, max and factor; it draws high and returns 1.196 s
C13_Witness ==
    /\ cout.op = "next"
    /\ cout.wasReset
    /\ cout.calls = 1
    /\ attempt = 1
    /\ cin = [min |-> 0, max |-> 2, factor |-> 5, jitter |-> 2]
    /\ cout.r = 99
    /\ cout.d = 1196000000

\* C14 (as claimed): no Next() returns a duration greater than max.
C14_NeverAboveMax == cout.op = "next" => cout.d <= TheBackoff.max

\* the live Subscribers for address a, registered or not
LiveFor(a) == {i \in 1..Len(subs) : subs[i].addr = a /\ Live(i)}

\* C15: whatever Track and Untrack calls concurrent callers make, there is at
\* most one live Subscriber per address, an entry of the registry points to a
\* Subscriber of that address that was not stopped, and a Track call that
\* finds an entry returns success and creates and launches nothing.
C15_OneLiveSubscriberPerAddress ==
    /\ [](\A a \in Addrs : Cardinality(LiveFor(a)) <= 1)
    /\ [](\A a \in Addrs : registry[a] # 0 =>
              /\ registry[a] \in 1..Len(subs)
              /\ subs[registry[a]].addr = a
              /\ ~subs[registry[a]].stopped)
    /\ [][\A c \in Callers :
            (/\ caller[c].op = "trackCheck"
             /\ caller'[c] # caller[c]
             /\ registry[caller[c].addr] # 0)
                => (/\ caller'[c] = Idle("existed")
                    /\ subs' = subs
                    /\ registry' = registry)]_vars

\* C15 witness: one caller has tracked addrA, the other then tracked it again
\* and got success for the entry that existed; one Subscriber, live
C15_Witness ==
    /\ Len(subs) = 1
    /\ registry["addrA"] = 1
    /\ Live(1)
    /\ caller[1] = Idle("tracked")
    /\ caller[2] = Idle("existed")

NeverDialled ==
    /\ pc \in {"top", "done"}
    /\ attempt = 0
    /\ nconn = 0
    /\ dialFaults = 0
    /\ ~open

\* C17: when a Stop() call has returned before Run has executed its first
\* iteration, Run never dials and the open flag is never set, and Run
\* returns.
C17_StopBeforeFirstIteration ==
    /\ [][(StopReturned /\ NeverDialled) => NeverDialled']_vars
    /\ (StopReturned /\ NeverDialled) ~> (pc = "done" /\ NeverDialled)

\* C17 witness: Run has returned on the stop signal alone, with no dial made
C17_Witness ==
    /\ pc = "done"
    /\ NeverDialled
    /\ StopReturned
    /\ ~ctxDone

\* C18 (as claimed): whenever a handler's AddWallet call succeeds and the
\* Track call that follows it fails, the next thing the handler does is
\* RemoveWallet for that address, for /track as for /trackmany.
C18_FailedTrackIsRolledBack ==
    \A i \in 1..Len(cout) :
        (/\ cout[i].fn = "AddWallet"
         /\ cout[i].ok
         /\ i < Len(cout)
         /\ cout[i + 1].fn = "Track"
         /\ ~cout[i + 1].ok)
            => (/\ i + 2 <= Len(cout)
                /\ cout[i + 2].fn = "RemoveWallet"
                /\ cout[i + 2].arg = cout[i].arg)

\* C19 (as claimed): the text "/tracked" is answered with the registry's
\* List() and causes no AddWallet and no Track call.
C19_TrackedListsOnly ==
    (cout # <<>> /\ cin.text = SlashTracked) =>
        /\ \E i \in 1..Len(cout) : cout[i].fn = "List"
        /\ \A i \in 1..Len(cout) : cout[i].fn \notin {"AddWallet", "Track"}

\* C20: bo.attempt of Run's Backoff counts the Next() calls since the last
\* successful dial: a successful dial sets it to 0, every step into a backoff
\* wait adds one, nothing else changes it; so it is 0 while connected and 1
\* in the wait after a failed subscribe write or a failed read.
C20_AttemptCountsNextSinceDial ==
    /\ [](pc \in ConnectedPcs => attempt = 0)
    /\ [](pc \in {"waitSub", "waitRead"} => attempt = 1)
    /\ [][IF pc = "dialing" /\ pc' = "subscribe"
             THEN attempt' = 0
             ELSE IF pc \notin WaitPcs /\ pc' \in WaitPcs
                     THEN attempt' = attempt + 1
                     ELSE attempt' = attempt]_vars

\* C20 witness: two dials failed in a row (the counter reached 2), the third
\* opened, the subscribe write failed, and the wait taken is a first one.
C20_Witness ==
    /\ pc = "waitSub"
    /\ attempt = 1
    /\ dialFaults >= 2
    /\ nconn = 1

\* C21: a failed subscribe write leads to the backoff wait with the
\* connection closed by Run and open false, with no pinger started for that
\* connection and no message read from it; the wait ends at the top of the
\* loop, or in a return only when stop or cancellation has fired.
C21_SubscribeFailureTearsDown ==
    /\ [](pc = "waitSub" =>
            /\ ~open
            /\ cur = 0
            /\ closes[nconn] >= 1
            /\ pinger[nconn] = "none")
    /\ [][(pc = "subscribe" /\ pc' \notin {"subscribe", "read"}) =>
            /\ pc' = "waitSub"
            /\ closes'[cur] = closes[cur] + 1
            /\ received' = received
            /\ sinkLog' = sinkLog]_vars
    /\ [][pc = "waitSub" =>
            /\ pc' \in {"waitSub", "top", "done"}
            /\ (pc' = "done" => stopClosed \/ ctxDone)
            /\ open' = open
            /\ pinger'[nconn] = pinger[nconn]]_vars
    /\ (pc = "waitSub") ~> (pc \in {"top", "done"})

\* C21 witness: the transport failed the subscribe write of the first
\* connection; nobody has stopped or cancelled; Run waits in backoff.
C21_Witness ==
    /\ pc = "waitSub"
    /\ connFaults = 1
    /\ closes[1] = 1
    /\ ~open
    /\ ~stopClosed
    /\ ~ctxDone

\* C22 (as claimed): every message ReadMessage returns, a data message as
\* well as a pong, sets the read deadline anew, so the time counted against the
\* deadline starts again at each received message.
C22_EveryMessageRefreshesDeadline ==
    [][Len(received') > Len(received) => idleTicks' = 0]_vars

\* the goroutines of each kind that have been spawned and have not returned
LiveWatchers == {c \in Conns : watcher[c] = "wait"}
LivePingers == {c \in Conns : pinger[c] = "run"}

\* C23 (as claimed): at any time at most one stop-watcher and at most one
\* pinger of a Subscriber is alive, and a connection that Run has torn down
\* (it is no longer the current one) has no stop-watcher left waiting once
\* Run is back at the top of the loop.
C23_AtMostOneAuxiliaryTaskPerKind ==
    /\ Cardinality(LiveWatchers) <= 1
    /\ Cardinality(LivePingers) <= 1
    /\ (pc \in {"top", "done"} => LiveWatchers = {})

\* C24 (as claimed): no connection is closed more than once.
C24_ClosedAtMostOnce == \A c \in Conns : closes[c] <= 1

\* the connections Run has opened that nobody has closed
Unclosed == {c \in 1..nconn : closes[c] = 0}

\* C25: a Subscriber holds at most one un-closed connection, and holds none,
\* with open false, whenever Run is not in its connected part: at the top of
\* the loop, about to dial or dialling, in a backoff wait, or returned.
C25_AtMostOneUnclosedTransport ==
    /\ Cardinality(Unclosed) <= 1
    /\ Unclosed \subseteq {cur}
    /\ (pc \notin ConnectedPcs => (Unclosed = {} /\ ~open /\ cur = 0))

\* C25 witness: Run has returned on cancellation alone, after a reconnect:
\* both connections it opened are closed and open is false.
C25_Witness ==
    /\ pc = "done"
    /\ nconn = 2
    /\ ctxDone
    /\ ~stopClosed
    /\ \A c \in 1..nconn : closes[c] = 1
    /\ ~open

\* C26 (as claimed): while a delivery is outstanding (Run is inside
\* ActivityNotify) on a connection that is intact and within its deadline,
\* Run can read the next inbound message.
C26_ReadWhileDelivering ==
    (/\ pc = "notify"
     /\ ~panicked
     /\ closes[cur] = 0
     /\ idleTicks < DeadlineTicks
     /\ Len(received) < MaxMsgs)
        => ENABLED (\E m \in Wire : ReadMsg(m))

\* C26 (amended): the callback runs inside the read loop.  While it runs,
\* Run reads nothing, calls the sink no second time and does not tear the
\* connection down or consult the Backoff; its only step is the return into
\* the read loop, which always comes (the delivery is bounded by its timeout),
\* whether the delivery succeeded or failed.
C26_DeliveryHoldsReadLoopBounded ==
    /\ [][pc = "notify" =>
            /\ pc' \in {"notify", "read"}
            /\ received' = received
            /\ sinkLog' = sinkLog
            /\ open' = open
            /\ attempt' = attempt
            /\ cur' = cur
            /\ pingStop' = pingStop]_vars
    /\ (pc = "notify") ~> (pc = "read")

\* C26 witness: the first message was a push and was delivered; after the
\* callback returned Run has read a second message on the same connection.
C26_Witness ==
    /\ pc = "read"
    /\ sinkLog = <<1>>
    /\ Len(received) = 2
    /\ nconn = 1
    /\ open

\* C27: s.open changes only in a step of Run (a step that moves Run and is
\* no step of a Stop() call or of an observer); no step of a Stop() call
\* changes it; IsOpen() and ShouldBeOpen() return the flag they load and change
\* nothing of the Subscriber; wss, commitment and addr stay as NewSubscriber
\* set them.
C27_OpenWrittenByRunOnly ==
    /\ [][open' # open => (pc' # pc /\ stopVars' = stopVars /\ cout' = cout)]_vars
    /\ [][stopVars' # stopVars => open' = open]_vars
    /\ [][cout' # cout =>
            /\ subscriberVars' = subscriberVars
            /\ (cout'.op = "IsOpen" => cout'.ret = open)
            /\ (cout'.op = "ShouldBeOpen" => cout'.ret = shouldOpen)]_vars
    /\ [][cin' = cin]_vars

\* C27 witness: a Stop() call has returned while Run is connected; open is
\* still true and IsOpen() has just returned true.
C27_Witness ==
    /\ StopReturned
    /\ ~shouldOpen
    /\ open
    /\ cout = [op |-> "IsOpen", ret |-> TRUE]

====
